---- MODULE Spec2Model ----
(***************************************************************************)
(* A model of the utility module of STAC Browser (src/src/utils.js).       *)
(*                                                                         *)
(* The module is a stateless library: the state of the model is the call   *)
(* being made (operation and arguments) and the value it returns.  Every   *)
(* operation of the library is one action; its return value is computed by *)
(* an operator translated from the function's code.  The Items component   *)
(* (src/src/components/Items.vue), which uses the library, adds its props  *)
(* and its data to the state.                                              *)
(*                                                                         *)
(* JavaScript values are tagged records (field t is the result of typeof,  *)
(* with "null", "array" and "date" told apart from plain objects).  A      *)
(* string is a sequence of symbols; a symbol is one character, or a word   *)
(* standing for a run of word characters that no operation of the code     *)
(* under study splits ("collection", "json", "example.com").               *)
(***************************************************************************)
EXTENDS Integers, Sequences, FiniteSets, TLC

VARIABLES call, ret, props, shownItems, filtersOpen, sort

\* The Items component (src/src/components/Items.vue): its props and its data.
component == <<props, shownItems, filtersOpen, sort>>

vars == <<call, ret, component>>

\* No Items component is mounted.
Unmounted ==
  /\ props = [mounted |-> FALSE]
  /\ shownItems = 0
  /\ filtersOpen = FALSE
  /\ sort = 0

(***************************************************************************)
(* JavaScript values                                                       *)
(***************************************************************************)
Undefined == [t |-> "undefined"]
Null      == [t |-> "null"]
Bool(b)   == [t |-> "boolean", b |-> b]
\* A finite number n; NaN and Infinity are the non-finite numbers.
Num(n)    == [t |-> "number", fin |-> TRUE, n |-> n]
NaN       == [t |-> "number", fin |-> FALSE, n |-> 0]
Infinity  == [t |-> "number", fin |-> FALSE, n |-> 1]
Str(s)    == [t |-> "string", s |-> s]
Arr(a)    == [t |-> "array", a |-> a]
Obj(o)    == [t |-> "object", o |-> o]
DateOf(d) == [t |-> "date", d |-> d]
\* The outcome of a call that raises an exception.
Throw     == [t |-> "throw"]
\* Before the call returns.
Pending   == [t |-> "pending"]

\* The call of op has returned (or raised).
Returned(op) == call.op = op /\ ret # Pending

\* The empty object {}.
EmptyObj == Obj(<<>>)

\* obj[key] for a plain object: undefined when the key is absent.
Get(obj, key) == IF obj.t = "object" /\ key \in DOMAIN obj.o THEN obj.o[key] ELSE Undefined

\* v[name] for a property name: reading a property of null or undefined
\* raises a TypeError; a value that is no plain object has none of the
\* properties the code reads by name.
Prop(v, name) ==
  IF v.t \in {"null", "undefined"} THEN Throw
  ELSE IF v.t = "object" THEN Get(v, name)
  ELSE Undefined

\* JavaScript truthiness (!!v).
Truthy(v) ==
  CASE v.t = "undefined" -> FALSE
    [] v.t = "null"      -> FALSE
    [] v.t = "boolean"   -> v.b
    [] v.t = "number"    -> IF v.fin THEN v.n # 0 ELSE v.n = 1
    [] v.t = "string"    -> Len(v.s) > 0
    [] OTHER             -> TRUE

\* typeof v === 'object' (null, arrays and dates included).
TypeofObject(v) == v.t \in {"null", "array", "object", "date"}

isObject(v) == v.t \in {"object", "date"}

\* The size of an array or object, 0 for anything else; a Date has no own keys.
size(v) ==
  CASE v.t = "array"  -> Len(v.a)
    [] v.t = "object" -> Cardinality(DOMAIN v.o)
    [] OTHER          -> 0

hasText(v) == v.t = "string" /\ Len(v.s) > 0

(***************************************************************************)
(* Strings                                                                 *)
(***************************************************************************)
\* All sequences over S of length at most n.
SeqsUpTo(S, n) == UNION {[1..k -> S] : k \in 0..n}

\* s.startsWith(p)
StartsWith(s, p) == Len(p) <= Len(s) /\ SubSeq(s, 1, Len(p)) = p

\* s.endsWith(p)
EndsWith(s, p) == Len(p) <= Len(s) /\ SubSeq(s, Len(s) - Len(p) + 1, Len(s)) = p

\* s.includes(p): p occurs in s as a contiguous run.
Includes(s, p) == \E i \in 0..(Len(s) - Len(p)) : SubSeq(s, i + 1, i + Len(p)) = p

\* The last index of symbol c in s, 0 when there is none (lastIndexOf, 1-based).
LastIndexOf(s, c) ==
  LET I == {i \in 1..Len(s) : s[i] = c}
  IN  IF I = {} THEN 0 ELSE CHOOSE i \in I : \A j \in I : j <= i

\* The first index of a symbol of C in s, 0 when there is none.
FirstIndexIn(s, C) ==
  LET I == {i \in 1..Len(s) : s[i] \in C}
  IN  IF I = {} THEN 0 ELSE CHOOSE i \in I : \A j \in I : i <= j

\* The symbols the regular expression class \w matches.
WordSyms == {"collection", "catalog", "item", "data", "json", "10", "a", "b", "x",
             "png", "gif", "tif", "v1", "PNG"}

IsWord(c) == c \in WordSyms

(***************************************************************************)
(* urijs: the parts of a parsed URL, as URI.parse splits the string        *)
(***************************************************************************)
Schemes == {"https:", "http:", "HTTP:", "ftp:", "s3:"}

\* uri.protocol(): the scheme without its colon, as written.
SchemeName(c) ==
  CASE c = "https:" -> <<"https">>
    [] c = "http:"  -> <<"http">>
    [] c = "HTTP:"  -> <<"HTTP">>
    [] c = "ftp:"   -> <<"ftp">>
    [] c = "s3:"    -> <<"s3">>

UriProtocol(h) == IF Len(h) > 0 /\ h[1] \in Schemes THEN SchemeName(h[1]) ELSE <<>>

\* What follows the scheme.
UriAfterScheme(h) == IF Len(h) > 0 /\ h[1] \in Schemes THEN Tail(h) ELSE h

\* What follows the query and fragment delimiters is not part of the path.
UriHier(h) ==
  LET r == UriAfterScheme(h)
      q == FirstIndexIn(r, {"?", "#"})
  IN  IF q = 0 THEN r ELSE SubSeq(r, 1, q - 1)

UriHasAuthority(h) == StartsWith(UriHier(h), <<"/", "/">>)

\* uri.authority(): what follows "//" up to the next "/".
UriAuthority(h) ==
  IF ~UriHasAuthority(h) THEN <<>>
  ELSE LET r == SubSeq(UriHier(h), 3, Len(UriHier(h)))
           e == FirstIndexIn(r, {"/"})
       IN  IF e = 0 THEN r ELSE SubSeq(r, 1, e - 1)

\* uri.path(): the rest; "/" when an authority is followed by nothing.
UriPath(h) ==
  IF ~UriHasAuthority(h) THEN UriHier(h)
  ELSE LET r == SubSeq(UriHier(h), 3, Len(UriHier(h)))
           e == FirstIndexIn(r, {"/"})
       IN  IF e = 0 THEN <<"/">> ELSE SubSeq(r, e, Len(r))

\* uri.filename(): what follows the last "/" of the path.
UriFilename(h) ==
  LET p == UriPath(h)
  IN  IF p = <<>> \/ p = <<"/">> THEN <<>>
      ELSE SubSeq(p, LastIndexOf(p, "/") + 1, Len(p))

\* uri.directory(): the path without its filename and the "/" before it.
UriDirectory(h) ==
  LET p == UriPath(h)
      d == SubSeq(p, 1, Len(p) - Len(UriFilename(h)) - 1)
  IN  IF p = <<>> /\ UriAuthority(h) = <<>> THEN <<>>
      ELSE IF p = <<"/">> THEN <<"/">>
      ELSE IF d # <<>> THEN d
      ELSE IF UriAuthority(h) # <<>> THEN <<"/">> ELSE <<>>

\* s.replace(/^\//, ''): one leading slash removed.
StripLeadingSlash(s) == IF Len(s) > 0 /\ s[1] = "/" THEN Tail(s) ELSE s

(***************************************************************************)
(* titleForHref                                                            *)
(***************************************************************************)
commonFileNames == {<<"catalog">>, <<"collection">>, <<"item">>}

\* file.replace(/^(.{1,})\.\w+$/, '$1'): the extension after the last dot is
\* removed when something precedes the dot and only word characters follow it.
StripExtension(f) ==
  LET d == LastIndexOf(f, ".")
  IN  IF d >= 2 /\ d < Len(f) /\ \A i \in (d + 1)..Len(f) : IsWord(f[i])
      THEN SubSeq(f, 1, d - 1)
      ELSE f

\* A variant: the filename is not looked up in commonFileNames.
titleForHrefAnyFile(href, preferFileName) ==
  LET auth == UriAuthority(href)
      file == StripExtension(UriFilename(href))
      dir  == StripLeadingSlash(UriDirectory(href))
      path == StripLeadingSlash(UriPath(href))
  IN  IF auth # <<>> /\ file # <<>> /\ ~preferFileName
      THEN IF auth = <<"doi.org">> /\ StartsWith(path, <<"10", ".">>)
           THEN <<"DOI", " ">> \o path
           ELSE file \o <<" ", "(">> \o auth \o <<")">>
      ELSE IF file # <<>> THEN file
      ELSE IF auth # <<>> THEN auth
      ELSE IF dir # <<>> THEN dir
      ELSE href

titleForHref(href, preferFileName) ==
  LET auth == UriAuthority(href)
      file == StripExtension(UriFilename(href))
      dir  == StripLeadingSlash(UriDirectory(href))
      path == StripLeadingSlash(UriPath(href))
  IN  IF auth # <<>> /\ file # <<>> /\ ~preferFileName
      THEN IF auth = <<"doi.org">> /\ StartsWith(path, <<"10", ".">>)
           THEN <<"DOI", " ">> \o path
           ELSE file \o <<" ", "(">> \o auth \o <<")">>
      ELSE IF file # <<>> /\ file \notin commonFileNames THEN file
      ELSE IF auth # <<>> THEN auth
      ELSE IF dir # <<>> THEN dir
      ELSE href

(***************************************************************************)
(* Inputs of titleForHref                                                  *)
(***************************************************************************)
MaxPathLen == 4

TitlePathSyms == {"/", ".", "collection", "data", "json", "10"}

TitleOrigins == {<<>>, <<"https:", "/", "/", "example.com">>, <<"https:", "/", "/", "doi.org">>}

\* An origin is followed by nothing or by a path that starts with "/".
TitleHrefs ==
  {o \o p : o \in TitleOrigins,
            p \in {q \in SeqsUpTo(TitlePathSyms, MaxPathLen) : q = <<>> \/ q[1] = "/"}}
  \cup SeqsUpTo(TitlePathSyms, MaxPathLen)

(***************************************************************************)
(* titleForHref: a call is chosen, then it returns                         *)
(***************************************************************************)
\* A call of titleForHref is about to be made.
InitTitle ==
  /\ call \in {[op |-> "titleForHref", href |-> h, preferFileName |-> p] :
                h \in TitleHrefs, p \in BOOLEAN}
  /\ ret = Pending
  /\ Unmounted

TitleForHref ==
  /\ call.op = "titleForHref"
  /\ ret = Pending
  /\ ret' = Str(titleForHref(call.href, call.preferFileName))
  /\ UNCHANGED <<call, component>>

NextTitle == TitleForHref

SpecTitle == InitTitle /\ [][NextTitle]_vars

(***************************************************************************)
(* C1                                                                      *)
(***************************************************************************)
\* The case of C1: a URL with an authority whose filename, extension stripped,
\* is a common name.
CommonNameCase ==
  /\ Returned("titleForHref")
  /\ UriAuthority(call.href) # <<>>
  /\ StripExtension(UriFilename(call.href)) \in commonFileNames

ExampleCollectionHref == <<"https:", "/", "/", "example.com", "/", "collection", ".", "json">>

\* C1 as stated: with preferFileName = false, a URL with an authority and a
\* common filename yields the authority alone.
C1_AsStated ==
  (CommonNameCase /\ ~call.preferFileName) => ret = Str(UriAuthority(call.href))

\* C1, amended: with preferFileName = false such a URL yields "<file> (<authority>)"
\* (or "DOI <path>" for doi.org with a path starting "10."); the authority alone
\* is what it yields with preferFileName = true.
C1_Amended ==
  CommonNameCase =>
    IF call.preferFileName
    THEN ret = Str(UriAuthority(call.href))
    ELSE IF UriAuthority(call.href) = <<"doi.org">>
            /\ StartsWith(StripLeadingSlash(UriPath(call.href)), <<"10", ".">>)
         THEN ret = Str(<<"DOI", " ">> \o StripLeadingSlash(UriPath(call.href)))
         ELSE ret = Str(StripExtension(UriFilename(call.href)) \o <<" ", "(">>
                        \o UriAuthority(call.href) \o <<")">>)

\* The example of C1 has been called, with preferFileName = true, and returned
\* the authority.
C1_Witness ==
  /\ call.op = "titleForHref"
  /\ call.href = ExampleCollectionHref
  /\ call.preferFileName
  /\ ret = Str(<<"example.com">>)

(***************************************************************************)
(* search                                                                  *)
(***************************************************************************)
\* The characters of the class that opens splitChars, /[\s.,;!&({[)}]]+/g:
\* the class is closed by the first "]", so "]" is not one of its members.
SplitClass == {" ", ".", ",", ";", "!", "&", "(", "{", "[", ")", "}"}

\* Where the match of splitChars that starts at i ends, 0 when none starts
\* there: one character of the class, then one or more "]".
SplitMatchEnd(s, i) ==
  IF i + 1 <= Len(s) /\ s[i] \in SplitClass /\ s[i + 1] = "]"
  THEN CHOOSE j \in (i + 1)..Len(s) :
         /\ \A k \in (i + 1)..j : s[k] = "]"
         /\ (j = Len(s) \/ s[j + 1] # "]")
  ELSE 0

\* s.split(splitChars), from position i on, cur being the piece read so far.
RECURSIVE SplitFrom(_, _, _)
SplitFrom(s, i, cur) ==
  IF i > Len(s) THEN <<cur>>
  ELSE IF SplitMatchEnd(s, i) # 0
       THEN <<cur>> \o SplitFrom(s, SplitMatchEnd(s, i) + 1, <<>>)
       ELSE SplitFrom(s, i + 1, Append(cur, s[i]))

\* s.replace(splitChars, ' '), from position i on.
RECURSIVE ReplaceFrom(_, _)
ReplaceFrom(s, i) ==
  IF i > Len(s) THEN <<>>
  ELSE IF SplitMatchEnd(s, i) # 0
       THEN <<" ">> \o ReplaceFrom(s, SplitMatchEnd(s, i) + 1)
       ELSE <<s[i]>> \o ReplaceFrom(s, i + 1)

\* c.toLowerCase() for one symbol.
LowerSym(c) ==
  CASE c = "A" -> "a"
    [] c = "B" -> "b"
    [] c = "PNG" -> "png"
    [] c = "HTTP" -> "http"
    [] c = "HTTP:" -> "http:"
    [] OTHER -> c

\* s.toLowerCase()
Lower(s) == [i \in 1..Len(s) |-> LowerSym(s[i])]

\* a.join(sep) for a sequence of strings.
RECURSIVE Join(_, _)
Join(a, sep) ==
  IF Len(a) = 0 THEN <<>>
  ELSE IF Len(a) = 1 THEN a[1]
  ELSE a[1] \o sep \o Join(Tail(a), sep)

\* a.filter(s => typeof s === 'string'), as the strings themselves.
RECURSIVE StringsOf(_)
StringsOf(a) ==
  IF Len(a) = 0 THEN <<>>
  ELSE IF a[1].t = "string" THEN <<a[1].s>> \o StringsOf(Tail(a))
  ELSE StringsOf(Tail(a))

\* Object.values(o): the values in key order (the model's objects that are
\* searched have at most one key).
ObjectValues(o) ==
  IF DOMAIN o = {} THEN <<>>
  ELSE LET k == CHOOSE k \in DOMAIN o : TRUE IN <<o[k]>>

\* The array search() looks in, after its first two conversions.
SearchTargetArray(target) ==
  IF target.t = "object" THEN Arr(ObjectValues(target.o))
  ELSE IF target.t = "date" THEN Arr(<<>>)
  ELSE IF target.t = "string" THEN Arr(<<target>>)
  ELSE target

search(searchterm, target, and) ==
  IF searchterm.t # "string" \/ Len(searchterm.s) = 0 THEN Bool(FALSE)
  ELSE IF SearchTargetArray(target).t # "array" THEN Bool(FALSE)
  ELSE LET terms == SplitFrom(Lower(searchterm.s), 1, <<>>)
           text  == Lower(ReplaceFrom(Join(StringsOf(SearchTargetArray(target).a), <<" ">>), 1))
       IN  IF Truthy(and)
           THEN Bool(\A i \in 1..Len(terms) : Includes(text, terms[i]))
           ELSE Bool(\E i \in 1..Len(terms) : Includes(text, terms[i]))

(***************************************************************************)
(* search: a call is chosen, then it returns                               *)
(***************************************************************************)
MaxSearchLen == 3

SearchSyms == {"a", "b", "A", " ", "]"}

SearchStrings == SeqsUpTo(SearchSyms, MaxSearchLen)

InitSearch ==
  /\ call \in {[op |-> "search", searchterm |-> Str(s), target |-> Str(x), and |-> Bool(m)] :
                s \in SearchStrings, x \in SearchStrings, m \in BOOLEAN}
  /\ ret = Pending
  /\ Unmounted

Search ==
  /\ call.op = "search"
  /\ ret = Pending
  /\ ret' = search(call.searchterm, call.target, call.and)
  /\ UNCHANGED <<call, component>>

NextSearch == Search

SpecSearch == InitSearch /\ [][NextSearch]_vars

(***************************************************************************)
(* C2                                                                      *)
(***************************************************************************)
\* The whitespace and punctuation characters search() is meant to split at.
Separators == SplitClass \cup {"]"}

\* The tokens of s: the pieces between the runs of separators.
TokensOf(s) ==
  {SubSeq(s, i, j) : <<i, j>> \in
     {p \in (1..Len(s)) \X (1..Len(s)) :
        /\ p[1] <= p[2]
        /\ \A k \in p[1]..p[2] : s[k] \notin Separators
        /\ (p[1] = 1 \/ s[p[1] - 1] \in Separators)
        /\ (p[2] = Len(s) \/ s[p[2] + 1] \in Separators)}}

\* A term that starts and ends with a word: splitting it leaves no empty piece.
WordsTerm(s) == Len(s) > 0 /\ s[1] \notin Separators /\ s[Len(s)] \notin Separators

\* C2: for a term of words and a string target, search returns whether every
\* token (matchAll) or at least one token (otherwise) of the lowercased term,
\* split at the runs of whitespace and punctuation, occurs in the lowercased
\* target.
C2_AsStated ==
  (Returned("search") /\ WordsTerm(call.searchterm.s) /\ call.target.t = "string") =>
    LET toks == TokensOf(Lower(call.searchterm.s))
        text == Lower(call.target.s)
    IN  ret = IF call.and.b
              THEN Bool(\A tok \in toks : Includes(text, tok))
              ELSE Bool(\E tok \in toks : Includes(text, tok))

(***************************************************************************)
(* mergeDeep                                                               *)
(***************************************************************************)
\* The enumerable keys of an object (for ... in); a Date has none.
KeysOf(v) == IF v.t = "object" THEN DOMAIN v.o ELSE {}

\* One source merged into target: what target holds after the for loop.
\* Every key of source touches target[key] alone.  An object-kind source value
\* is merged into target[key], which is first set to {} when it is falsy;
\* mergeDeep(target[key], source[key]) then leaves a target[key] that is no
\* object as it is.
RECURSIVE mergeSource(_, _)
mergeSource(target, source) ==
  IF isObject(target) /\ isObject(source)
  THEN Obj([key \in KeysOf(target) \cup KeysOf(source) |->
         IF key \notin KeysOf(source) THEN target.o[key]
         ELSE IF isObject(source.o[key])
              THEN mergeSource(IF Truthy(Get(target, key)) THEN target.o[key] ELSE EmptyObj,
                               source.o[key])
              ELSE source.o[key]])
  ELSE target

\* mergeDeep(target, ...sources): the sources are merged in argument order.
RECURSIVE mergeDeep(_, _)
mergeDeep(target, sources) ==
  IF Len(sources) = 0 THEN target
  ELSE mergeDeep(mergeSource(target, Head(sources)), Tail(sources))

(***************************************************************************)
(* mergeDeep: a call is chosen, then it returns                            *)
(***************************************************************************)
MergeKeys == {"a", "b"}

\* A falsy scalar, a truthy scalar and an array.
MergeLeaves == {Num(0), Num(1), Arr(<<Num(1)>>)}

\* The objects with keys among K whose values are drawn from V.
ObjectsOver(K, V) == UNION {{Obj(f) : f \in [D -> V]} : D \in SUBSET K}

\* Objects of leaves, and objects that may hold such an object at key "a".
MergeFlat == ObjectsOver(MergeKeys, MergeLeaves)
MergeNested ==
  {v \in ObjectsOver(MergeKeys, MergeLeaves \cup MergeFlat) :
     "b" \in DOMAIN v.o => v.o["b"] \in MergeLeaves}

InitMerge ==
  /\ call \in {[op |-> "mergeDeep", target |-> t, sources |-> <<s>>] :
                 t \in MergeNested, s \in MergeNested}
          \cup {[op |-> "mergeDeep", target |-> t, sources |-> <<s1, s2>>] :
                 t \in MergeFlat, s1 \in MergeFlat, s2 \in MergeFlat}
  /\ ret = Pending
  /\ Unmounted

MergeDeep ==
  /\ call.op = "mergeDeep"
  /\ ret = Pending
  /\ ret' = mergeDeep(call.target, call.sources)
  /\ UNCHANGED <<call, component>>

NextMerge == MergeDeep

SpecMerge == InitMerge /\ [][NextMerge]_vars

(***************************************************************************)
(* C3                                                                      *)
(***************************************************************************)
\* The merge C3 describes: at every key of the source the target holds the
\* source's value, except that two plain objects are merged by the same rule.
RECURSIVE LastWins(_, _)
LastWins(target, source) ==
  Obj([key \in KeysOf(target) \cup KeysOf(source) |->
    IF key \notin KeysOf(source) THEN target.o[key]
    ELSE IF isObject(source.o[key]) /\ isObject(Get(target, key))
         THEN LastWins(target.o[key], source.o[key])
         ELSE source.o[key]])

RECURSIVE LastWinsAll(_, _)
LastWinsAll(target, sources) ==
  IF Len(sources) = 0 THEN target
  ELSE LastWinsAll(LastWins(target, Head(sources)), Tail(sources))

\* C3: after mergeDeep(target, s1, ..., sn) with object arguments, every key of
\* a source holds the value of the last source that has it (a scalar or array
\* is overwritten, also by a nested object; nested objects on both sides are
\* merged by the same rule).
C3_AsStated ==
  Returned("mergeDeep") => ret = LastWinsAll(call.target, call.sources)

(***************************************************************************)
(* urijs: the query string                                                 *)
(***************************************************************************)
\* s.split(c) for a single character c.
RECURSIVE SplitOn(_, _)
SplitOn(s, c) ==
  LET i == FirstIndexIn(s, {c})
  IN  IF i = 0 THEN <<s>>
      ELSE <<SubSeq(s, 1, i - 1)>> \o SplitOn(SubSeq(s, i + 1, Len(s)), c)

\* uri.query(): what lies between "?" and "#".
UriQuery(h) ==
  LET q == FirstIndexIn(h, {"?"})
      r == IF q = 0 THEN <<>> ELSE SubSeq(h, q + 1, Len(h))
      f == FirstIndexIn(r, {"#"})
  IN  IF f = 0 THEN r ELSE SubSeq(r, 1, f - 1)

\* The URL without its query and fragment.
UriBeforeQuery(h) ==
  LET q == FirstIndexIn(h, {"?", "#"})
  IN  IF q = 0 THEN h ELSE SubSeq(h, 1, q - 1)

\* String(n) for the numbers of the model.
NumSym(n) ==
  CASE n = 0 -> "0" [] n = 1 -> "1" [] n = 2 -> "2" [] n = 3 -> "3"
    [] n = 4 -> "4" [] n = 5 -> "5"

\* String(v), as Array.prototype.join and the query builder apply it; join
\* turns null and undefined into the empty string.
RECURSIVE ToStr(_)
RECURSIVE JoinValues(_, _)
ToStr(v) ==
  CASE v.t = "string"    -> v.s
    [] v.t = "number"    -> IF v.fin THEN <<NumSym(v.n)>>
                            ELSE IF v.n = 0 THEN <<"NaN">> ELSE <<"Infinity">>
    [] v.t = "boolean"   -> IF v.b THEN <<"true">> ELSE <<"false">>
    [] v.t = "null"      -> <<"null">>
    [] v.t = "undefined" -> <<"undefined">>
    [] v.t = "array"     -> JoinValues(v.a, <<",">>)
    [] v.t = "object"    -> <<"[object Object]">>
    [] v.t = "date"      -> <<"Thu Jan 01 1970">>

JoinValues(a, sep) ==
  IF Len(a) = 0 THEN <<>>
  ELSE (IF a[1].t \in {"null", "undefined"} THEN <<>> ELSE ToStr(a[1]))
       \o (IF Len(a) = 1 THEN <<>> ELSE sep \o JoinValues(Tail(a), sep))

\* The index of the entry of key k in the query data, 0 when there is none.
EntryOf(data, k) ==
  IF \E i \in 1..Len(data) : data[i].k = k
  THEN CHOOSE i \in 1..Len(data) : data[i].k = k
  ELSE 0

\* URI.parseQuery, one piece "name=value" or "name" after the other: a repeated
\* name collects its values.  An entry holds a name and its values in order.
RECURSIVE ParsePieces(_, _)
ParsePieces(pieces, data) ==
  IF Len(pieces) = 0 THEN data
  ELSE LET p == Head(pieces)
           e == FirstIndexIn(p, {"="})
           k == IF e = 0 THEN p ELSE SubSeq(p, 1, e - 1)
           v == IF e = 0 THEN Null ELSE Str(SubSeq(p, e + 1, Len(p)))
           i == EntryOf(data, k)
       IN  IF p = <<>> THEN ParsePieces(Tail(pieces), data)
           ELSE IF i = 0
                THEN ParsePieces(Tail(pieces), Append(data, [k |-> k, vs |-> <<v>>]))
                ELSE ParsePieces(Tail(pieces), [data EXCEPT ![i].vs = Append(@, v)])

ParseQuery(q) == ParsePieces(SplitOn(q, "&"), <<>>)

\* uri.removeQuery(key)
RemoveQuery(data, key) == SelectSeq(data, LAMBDA e : e.k # key)

\* The values an array sets: undefined is skipped and a value whose string has
\* been seen is dropped (duplicateQueryParameters is off).
RECURSIVE UniqueValues(_, _)
UniqueValues(a, seen) ==
  IF Len(a) = 0 THEN <<>>
  ELSE IF a[1].t = "undefined" \/ ToStr(a[1]) \in seen THEN UniqueValues(Tail(a), seen)
  ELSE <<a[1]>> \o UniqueValues(Tail(a), seen \cup {ToStr(a[1])})

\* uri.setQuery(key, value): the entry of key is replaced where it stands, a new
\* key is added at the end.
SetQuery(data, key, value) ==
  LET vs == IF value.t = "array" THEN UniqueValues(value.a, {})
            ELSE IF value.t = "undefined" THEN <<Null>> ELSE <<value>>
      i  == EntryOf(data, key)
  IN  IF i = 0 THEN Append(data, [k |-> key, vs |-> vs])
      ELSE [data EXCEPT ![i].vs = vs]

\* URI.buildQuery: "name=value" for every value, "name" alone for null.
RECURSIVE BuildValues(_, _)
BuildValues(k, vs) ==
  IF Len(vs) = 0 THEN <<>>
  ELSE <<"&">> \o k \o (IF vs[1].t = "null" THEN <<>> ELSE <<"=">> \o ToStr(vs[1]))
       \o BuildValues(k, Tail(vs))

RECURSIVE BuildEntries(_)
BuildEntries(data) ==
  IF Len(data) = 0 THEN <<>>
  ELSE BuildValues(data[1].k, data[1].vs) \o BuildEntries(Tail(data))

BuildQuery(data) == IF BuildEntries(data) = <<>> THEN <<>> ELSE Tail(BuildEntries(data))

\* url.toString() once the query has been rebuilt.
UriWithQuery(h, data) ==
  UriBeforeQuery(h) \o (IF BuildQuery(data) = <<>> THEN <<>> ELSE <<"?">> \o BuildQuery(data))

(***************************************************************************)
(* formatDatetimeQuery, addFiltersToLink                                   *)
(***************************************************************************)
\* dt.toISOString()
ISOString(dt) == Str(<<"1970-01-01T00:00:00.000Z">>)

\* value.map(...).join('/'): only an array has map, anything else raises a
\* TypeError.
formatDatetimeQuery(value) ==
  IF value.t # "array" THEN Throw
  ELSE Str(JoinValues([i \in 1..Len(value.a) |->
                         IF value.a[i].t = "date" THEN ISOString(value.a[i])
                         ELSE IF Truthy(value.a[i]) THEN value.a[i]
                         ELSE Str(<<".", ".">>)], <<"/">>))

\* The test that removes a parameter.
FilterIsEmpty(value) ==
  \/ value.t = "null"
  \/ (value.t = "number" /\ ~value.fin)
  \/ (value.t = "string" /\ Len(value.s) = 0)
  \/ (TypeofObject(value) /\ size(value) = 0)

\* The loop of addFiltersToLink over the entries of filters, in insertion
\* order; the result is the query data (tagged "query"), or Throw.  (A key
\* 'filters' is handed to Queryable.formatText, which is outside this module:
\* the model's filter maps have no such key.)
RECURSIVE ApplyFilters(_, _)
ApplyFilters(data, entries) ==
  IF Len(entries) = 0 THEN [t |-> "query", data |-> data]
  ELSE LET key   == entries[1].k
           value == entries[1].v
       IN  IF FilterIsEmpty(value)
           THEN ApplyFilters(RemoveQuery(data, key), Tail(entries))
           ELSE IF key = <<"datetime">>
           THEN IF formatDatetimeQuery(value).t = "throw" THEN Throw
                ELSE ApplyFilters(SetQuery(data, key, formatDatetimeQuery(value)), Tail(entries))
           ELSE IF key \in {<<"bbox">>, <<"collections">>, <<"ids">>} /\ value.t = "array"
           THEN ApplyFilters(SetQuery(data, key, Str(JoinValues(value.a, <<",">>))), Tail(entries))
           ELSE ApplyFilters(SetQuery(data, key, value), Tail(entries))

\* A plain object given by its entries [k, v] in insertion order, the order in
\* which for ... in visits them.
Filters(e) == [t |-> "filters", e |-> e]

\* The keys of an object in one order (the model's Obj keeps no insertion
\* order; it stands for filters only where the order does not matter).
RECURSIVE KeySeq(_)
KeySeq(K) ==
  IF K = {} THEN <<>>
  ELSE LET k == CHOOSE x \in K : TRUE IN <<k>> \o KeySeq(K \ {k})

\* The entries for (let key in filters) visits with filters[key]: those of an
\* object, the indices of an array or string, none for anything else (null
\* and undefined included; undefined is replaced by the default {}).
EntriesOf(filters) ==
  CASE filters.t = "filters" -> filters.e
    [] filters.t = "object"  ->
         [i \in 1..Cardinality(DOMAIN filters.o) |->
            [k |-> <<KeySeq(DOMAIN filters.o)[i]>>, v |-> filters.o[KeySeq(DOMAIN filters.o)[i]]]]
    [] filters.t = "array"   ->
         [i \in 1..Len(filters.a) |-> [k |-> <<NumSym(i - 1)>>, v |-> filters.a[i]]]
    [] filters.t = "string"  ->
         [i \in 1..Len(filters.s) |-> [k |-> <<NumSym(i - 1)>>, v |-> Str(<<filters.s[i]>>)]]
    [] OTHER                 -> <<>>

\* addFiltersToLink(link, filters).  link.href raises a TypeError on null and
\* undefined, and new URI(href) raises one on an href that is no string.
\* Object.assign copies the own properties of link and sets href.
addFiltersToLink(link, filters) ==
  IF Prop(link, "href").t # "string" THEN Throw
  ELSE LET q == ApplyFilters(ParseQuery(UriQuery(link.o["href"].s)), EntriesOf(filters))
       IN  IF q.t = "throw" THEN Throw
           ELSE Obj([key \in DOMAIN link.o |->
                       IF key = "href" THEN Str(UriWithQuery(link.o["href"].s, q.data))
                       ELSE link.o[key]])

(***************************************************************************)
(* addFiltersToLink: a call is chosen, then it returns                     *)
(***************************************************************************)
MaxFilters == 2

FilterKeys == {<<"limit">>, <<"bbox">>, <<"datetime">>}

FilterValues ==
  {Null, NaN, Num(5), Str(<<>>), Str(<<"v">>), Arr(<<>>), Arr(<<Num(1), Num(2)>>),
   EmptyObj, Obj([k \in {"a"} |-> Num(1)]), DateOf(0)}

\* The filter maps: up to MaxFilters entries with distinct keys, in insertion order.
FilterMaps ==
  {f \in SeqsUpTo([k : FilterKeys, v : FilterValues], MaxFilters) :
     \A i, j \in 1..Len(f) : f[i].k = f[j].k => i = j}

FilterBase == <<"https:", "/", "/", "ex.com", "/", "s">>

FilterQueries ==
  {<<>>,
   <<"?", "x", "=", "1">>,
   <<"?", "limit", "=", "5", "&", "x", "=", "1">>,
   <<"?", "bbox", "=", "9">>,
   <<"?", "datetime", "=", "9", "&", "x", "=", "1", "&", "x", "=", "2">>}

LinksToFilter ==
  {Obj([key \in {"href", "rel"} |->
          IF key = "href" THEN Str(FilterBase \o q) ELSE Str(<<"search">>)]) :
     q \in FilterQueries}

InitFilters ==
  /\ call \in {[op |-> "addFiltersToLink", link |-> l, filters |-> Filters(f)] :
                 l \in LinksToFilter, f \in FilterMaps}
  /\ ret = Pending
  /\ Unmounted

AddFiltersToLink ==
  /\ call.op = "addFiltersToLink"
  /\ ret = Pending
  /\ ret' = addFiltersToLink(call.link, call.filters)
  /\ UNCHANGED <<call, component>>

NextFilters == AddFiltersToLink

SpecFilters == InitFilters /\ [][NextFilters]_vars

(***************************************************************************)
(* C4                                                                      *)
(***************************************************************************)
\* The values of parameter k in the query string of href, in order.
ParamValues(href, k) ==
  LET data == ParseQuery(UriQuery(href))
  IN  IF EntryOf(data, k) = 0 THEN <<>> ELSE data[EntryOf(data, k)].vs

\* The values C4 says remove a parameter: null, a non-finite number, an empty
\* string, an empty array or object (a Date is among those that set it).
RemovesParameter(v) ==
  \/ v.t = "null"
  \/ (v.t = "number" /\ ~v.fin)
  \/ (v.t = "string" /\ Len(v.s) = 0)
  \/ (v.t = "array" /\ Len(v.a) = 0)
  \/ (v.t = "object" /\ DOMAIN v.o = {})

\* C4: addFiltersToLink returns a link in whose query string every filter key
\* is absent iff its value is null, a non-finite number, an empty string or an
\* empty array/object, and is otherwise present (a string or finite number
\* with that value); every other parameter of link.href keeps its values.
C4_AsStated ==
  Returned("addFiltersToLink") =>
    /\ ret # Throw
    /\ \A i \in 1..Len(call.filters.e) :
         LET k == call.filters.e[i].k
             v == call.filters.e[i].v
         IN  /\ RemovesParameter(v) <=> ParamValues(ret.o["href"].s, k) = <<>>
             /\ (v.t \in {"string", "number"} /\ ~RemovesParameter(v) /\ k # <<"datetime">>)
                  => ParamValues(ret.o["href"].s, k) = <<Str(ToStr(v))>>
    /\ \A k \in {<<"x">>, <<"limit">>, <<"bbox">>, <<"datetime">>} :
         (\A i \in 1..Len(call.filters.e) : call.filters.e[i].k # k)
           => ParamValues(ret.o["href"].s, k) = ParamValues(call.link.o["href"].s, k)
    /\ \A key \in DOMAIN call.link.o \ {"href"} : ret.o[key] = call.link.o[key]

(***************************************************************************)
(* JavaScript property access and comparison                               *)
(***************************************************************************)
\* a === b for the values of the model: objects and arrays are equal only to
\* themselves, which no two arguments of a call are; NaN equals nothing.
StrictEquals(a, b) ==
  /\ a.t \in {"undefined", "null", "boolean", "number", "string"}
  /\ a = b
  /\ ~(a.t = "number" /\ ~a.fin /\ a.n = 0)

\* a.includes(x) for an array a (SameValueZero: NaN is found).
ArrayIncludes(a, x) ==
  \E i \in 1..Len(a) :
    /\ a[i].t \in {"undefined", "null", "boolean", "number", "string"}
    /\ a[i] = x

\* rels.includes(x): an array or a string has includes; on anything else the
\* call raises a TypeError.
IncludesOf(rels, x) ==
  IF rels.t = "array" THEN Bool(ArrayIncludes(rels.a, x))
  ELSE IF rels.t = "string" THEN Bool(Includes(rels.s, ToStr(x)))
  ELSE Throw

(***************************************************************************)
(* getLinkWithRel, getLinksWithRels, getLinksWithOtherRels                 *)
(***************************************************************************)
\* Utils.isObject(link) && Utils.hasText(link.href)
LinkHasHref(link) == isObject(link) /\ hasText(Get(link, "href"))

\* links.find(...): the first entry with an href whose rel is rel; undefined
\* when there is none, null when links is no array.
getLinkWithRel(links, rel) ==
  IF links.t # "array" THEN Null
  ELSE LET I == {i \in 1..Len(links.a) :
                   LinkHasHref(links.a[i]) /\ StrictEquals(Get(links.a[i], "rel"), rel)}
       IN  IF I = {} THEN Undefined
           ELSE links.a[CHOOSE i \in I : \A j \in I : i <= j]

\* links.filter(link => isObject(link) && hasText(link.href) && <test>), the
\* test being rels.includes(link.rel) = keep.  The filter visits the entries
\* in order; the first entry that reaches rels.includes on a rels without it
\* raises.
RECURSIVE FilterLinks(_, _, _)
FilterLinks(a, rels, keep) ==
  IF Len(a) = 0 THEN Arr(<<>>)
  ELSE IF ~LinkHasHref(a[1]) THEN FilterLinks(Tail(a), rels, keep)
  ELSE IF IncludesOf(rels, Get(a[1], "rel")).t = "throw" THEN Throw
  ELSE LET rest == FilterLinks(Tail(a), rels, keep)
       IN  IF rest.t = "throw" THEN Throw
           ELSE IF IncludesOf(rels, Get(a[1], "rel")).b = keep THEN Arr(<<a[1]>> \o rest.a)
           ELSE rest

getLinksWithRels(links, rels) ==
  IF links.t # "array" THEN Arr(<<>>) ELSE FilterLinks(links.a, rels, TRUE)

getLinksWithOtherRels(links, rels) ==
  IF links.t # "array" THEN Arr(<<>>) ELSE FilterLinks(links.a, rels, FALSE)

(***************************************************************************)
(* Link selection: a call is chosen, then it returns                       *)
(***************************************************************************)
MaxLinks == 3

\* A link object with the given href and rel (Undefined: the property is absent).
Link(href, rel) ==
  Obj([key \in (IF href = Undefined THEN {} ELSE {"href"})
                 \cup (IF rel = Undefined THEN {} ELSE {"rel"}) |->
         IF key = "href" THEN href ELSE rel])

\* Entries of a links array: three links with href and rel, one with an empty
\* href, one without href, one without rel, one whose rel is a number, and
\* two entries that are no objects.
LinkEntries ==
  {Link(Str(<<"a">>), Str(<<"self">>)),
   Link(Str(<<"b">>), Str(<<"parent">>)),
   Link(Str(<<"c">>), Str(<<"item">>)),
   Link(Str(<<>>), Str(<<"self">>)),
   Link(Undefined, Str(<<"self">>)),
   Link(Str(<<"d">>), Undefined),
   Link(Str(<<"e">>), Num(5)),
   Str(<<"a">>),
   Null}

LinkArrays == {Arr(a) : a \in SeqsUpTo(LinkEntries, MaxLinks)}

RelSets == {Arr(<<>>), Arr(<<Str(<<"self">>)>>), Arr(<<Str(<<"self">>), Str(<<"parent">>)>>)}

InitLinks ==
  /\ call \in {[op |-> o, links |-> l, rels |-> r] :
                 o \in {"getLinksWithRels", "getLinksWithOtherRels"},
                 l \in LinkArrays, r \in RelSets}
          \cup {[op |-> "getLinkWithRel", links |-> l, rel |-> r] :
                 l \in LinkArrays, r \in {Str(<<"self">>), Str(<<"parent">>)}}
  /\ ret = Pending
  /\ Unmounted

GetLinkWithRel ==
  /\ call.op = "getLinkWithRel"
  /\ ret = Pending
  /\ ret' = getLinkWithRel(call.links, call.rel)
  /\ UNCHANGED <<call, component>>

GetLinksWithRels ==
  /\ call.op = "getLinksWithRels"
  /\ ret = Pending
  /\ ret' = getLinksWithRels(call.links, call.rels)
  /\ UNCHANGED <<call, component>>

GetLinksWithOtherRels ==
  /\ call.op = "getLinksWithOtherRels"
  /\ ret = Pending
  /\ ret' = getLinksWithOtherRels(call.links, call.rels)
  /\ UNCHANGED <<call, component>>

NextLinks == GetLinkWithRel \/ GetLinksWithRels \/ GetLinksWithOtherRels

SpecLinks == InitLinks /\ [][NextLinks]_vars

(***************************************************************************)
(* C7                                                                      *)
(***************************************************************************)
\* A well-formed entry, as C7 has it: an object whose href is a non-empty
\* string and whose rel is a string.
WellFormedLink(link) ==
  /\ link.t = "object"
  /\ Get(link, "href").t = "string" /\ Len(Get(link, "href").s) > 0
  /\ Get(link, "rel").t = "string"

\* C7: getLinksWithRels returns the well-formed entries whose rel is in rels,
\* getLinksWithOtherRels the well-formed entries whose rel is not, both in the
\* order of links: a well-formed entry is in exactly one of the results, a
\* malformed one in neither.
C7_AsStated ==
  (Returned("getLinksWithRels") \/ Returned("getLinksWithOtherRels")) =>
    LET wf == SelectSeq(call.links.a, WellFormedLink)
        in == SelectSeq(wf, LAMBDA l : \E i \in 1..Len(call.rels.a) : call.rels.a[i] = l.o["rel"])
        out == SelectSeq(wf, LAMBDA l : \A i \in 1..Len(call.rels.a) : call.rels.a[i] # l.o["rel"])
    IN  ret = IF call.op = "getLinksWithRels" THEN Arr(in) ELSE Arr(out)

(***************************************************************************)
(* canBrowserDisplayImage                                                  *)
(***************************************************************************)
\* A media type "image/<sub>".
ImageType(sub) == <<"image", "/">> \o sub

browserImageTypes ==
  {ImageType(<<"gif">>), ImageType(<<"jpg">>), ImageType(<<"jpeg">>),
   ImageType(<<"apng">>), ImageType(<<"png">>), ImageType(<<"webp">>)}

browserProtocols == {<<"http">>, <<"https">>}

\* browserImageTypes.includes(v): only a string can be one of them.
IsBrowserImageType(v) == v.t = "string" /\ v.s \in browserImageTypes

\* uri.suffix(): what follows the last dot of the filename, when that is a run
\* of letters and digits.
UriSuffix(h) ==
  LET f == UriFilename(h)
      d == LastIndexOf(f, ".")
  IN  IF d = 0 \/ d = Len(f) THEN <<>>
      ELSE IF \A i \in (d + 1)..Len(f) : IsWord(f[i]) THEN SubSeq(f, d + 1, Len(f))
      ELSE <<>>

\* A variant: the declared type is looked at before the protocol.
canBrowserDisplayImageTypeFirst(img) ==
  IF Prop(img, "href").t = "throw" THEN Throw
  ELSE IF Prop(img, "href").t # "string" THEN Bool(FALSE)
  ELSE LET protocol == Lower(UriProtocol(img.o["href"].s))
       IN  IF IsBrowserImageType(Get(img, "type")) THEN Bool(TRUE)
           ELSE IF protocol # <<>> /\ protocol \notin browserProtocols THEN Bool(FALSE)
           ELSE IF ImageType(Lower(UriSuffix(img.o["href"].s))) \in browserImageTypes
                THEN Bool(TRUE)
           ELSE IF Truthy(Get(img, "type")) THEN Bool(FALSE)
           ELSE Bool(TRUE)

canBrowserDisplayImage(img) ==
  IF Prop(img, "href").t = "throw" THEN Throw
  ELSE IF Prop(img, "href").t # "string" THEN Bool(FALSE)
  ELSE LET protocol == Lower(UriProtocol(img.o["href"].s))
       IN  IF protocol # <<>> /\ protocol \notin browserProtocols THEN Bool(FALSE)
           ELSE IF IsBrowserImageType(Get(img, "type")) THEN Bool(TRUE)
           ELSE IF ImageType(Lower(UriSuffix(img.o["href"].s))) \in browserImageTypes
                THEN Bool(TRUE)
           ELSE IF Truthy(Get(img, "type")) THEN Bool(FALSE)
           ELSE Bool(TRUE)

(***************************************************************************)
(* canBrowserDisplayImage: a call is chosen, then it returns               *)
(***************************************************************************)
MaxNameLen == 3

ImageOrigins ==
  {<<>>, <<"/", "/", "ex.com", "/">>} \cup
  {<<c, "/", "/", "ex.com", "/">> : c \in Schemes}

\* File names: words and dots.
ImageNames == SeqsUpTo({"x", ".", "png", "PNG", "tif"}, MaxNameLen)

\* The declared type: none, a browser image type, the same in capitals, a
\* GeoTIFF type, the empty string and values that are no strings.
ImageTypes ==
  {Undefined, Str(ImageType(<<"png">>)), Str(ImageType(<<"PNG">>)),
   Str(ImageType(<<"tif">>)), Str(ImageType(<<"gif">>)), Str(<<>>), Null, Num(1)}

\* An asset link with the given href and type (Undefined: absent).
Image(href, type) ==
  Obj([key \in (IF href = Undefined THEN {} ELSE {"href"})
                 \cup (IF type = Undefined THEN {} ELSE {"type"}) |->
         IF key = "href" THEN href ELSE type])

ImageLinks ==
  {Image(Str(o \o n), ty) : o \in ImageOrigins, n \in ImageNames, ty \in ImageTypes}
  \cup {Image(h, ty) : h \in {Undefined, Null, Num(1)}, ty \in ImageTypes}

InitImage ==
  /\ call \in {[op |-> "canBrowserDisplayImage", img |-> i] : i \in ImageLinks}
  /\ ret = Pending
  /\ Unmounted

CanBrowserDisplayImage ==
  /\ call.op = "canBrowserDisplayImage"
  /\ ret = Pending
  /\ ret' = canBrowserDisplayImage(call.img)
  /\ UNCHANGED <<call, component>>

NextImage == CanBrowserDisplayImage

SpecImage == InitImage /\ [][NextImage]_vars

(***************************************************************************)
(* C10                                                                     *)
(***************************************************************************)
\* The scheme of an href of the model, lowercased ("" when it has none).
SchemeOf(href) ==
  IF Len(href) > 0 /\ href[1] \in {"https:", "http:", "HTTP:", "ftp:", "s3:"}
  THEN LowerSym(SchemeName(href[1])[1])
  ELSE ""

\* The file extension of an href of the model: what follows its last dot, when
\* the dot is not followed by a slash (lowercased, <<>> when there is none).
ExtensionOf(href) ==
  LET d == LastIndexOf(href, ".")
  IN  IF d = 0 \/ d = Len(href) \/ LastIndexOf(href, "/") > d THEN <<>>
      ELSE Lower(SubSeq(href, d + 1, Len(href)))

\* The first rule of C10 that applies ("a" to "f").
ImageRule(img) ==
  LET href == Get(img, "href")
      type == Get(img, "type")
  IN  IF href.t # "string" THEN "a"
      ELSE IF SchemeOf(href.s) \notin {"", "http", "https"} THEN "b"
      ELSE IF type.t = "string" /\ type.s \in browserImageTypes THEN "c"
      ELSE IF <<"image", "/">> \o ExtensionOf(href.s) \in browserImageTypes THEN "d"
      ELSE IF Truthy(type) THEN "e"
      ELSE "f"

\* C10: the first rule that applies decides: (a) href no string -> false,
\* (b) a scheme other than http/https -> false, (c) declared type a browser
\* image type -> true, (d) 'image/' + extension a browser image type -> true,
\* (e) a type declared -> false, (f) otherwise true.  (A type is declared
\* when img.type is truthy.)
C10_RuleOrder ==
  Returned("canBrowserDisplayImage") =>
    ret = Bool(ImageRule(call.img) \in {"c", "d", "f"})

\* A URL with a scheme other than http/https and a declared browser image type
\* has been refused: rule (b) decides before rule (c).
C10_Witness ==
  /\ Returned("canBrowserDisplayImage")
  /\ Get(call.img, "href").t = "string"
  /\ SchemeOf(call.img.o["href"].s) = "ftp"
  /\ Get(call.img, "type") = Str(ImageType(<<"png">>))
  /\ ret = Bool(FALSE)

(***************************************************************************)
(* supportsExtension                                                       *)
(***************************************************************************)
\* regexp.test(uri) for the expression '^' + pattern.replaceAll('*', '[^/]+')
\* + '$', the pattern being a string of letters, '/', '.' and '*': a '*' has
\* become [^/]+ (one or more characters other than '/'), a '.' is the
\* expression that matches any one character, and every other character
\* matches itself.
RECURSIVE RegExpTest(_, _)
RegExpTest(pattern, uri) ==
  IF Len(pattern) = 0 THEN Len(uri) = 0
  ELSE IF pattern[1] = "*"
       THEN \E k \in 1..Len(uri) :
              /\ \A i \in 1..k : uri[i] # "/"
              /\ RegExpTest(Tail(pattern), SubSeq(uri, k + 1, Len(uri)))
  ELSE IF pattern[1] = "."
       THEN Len(uri) > 0 /\ RegExpTest(Tail(pattern), Tail(uri))
  ELSE Len(uri) > 0 /\ uri[1] = pattern[1] /\ RegExpTest(Tail(pattern), Tail(uri))

\* pattern.replaceAll exists on strings only: any other pattern raises a
\* TypeError once data has passed the first test.
supportsExtension(data, pattern) ==
  IF ~isObject(data) \/ Get(data, "stac_extensions").t # "array" THEN Bool(FALSE)
  ELSE IF pattern.t # "string" THEN Throw
  ELSE LET exts == data.o["stac_extensions"].a
       IN  Bool(\E i \in 1..Len(exts) : RegExpTest(pattern.s, ToStr(exts[i])))

(***************************************************************************)
(* supportsExtension: a call is chosen, then it returns                    *)
(***************************************************************************)
MaxUriLen == 3

ExtensionUris == SeqsUpTo({"a", "b", ".", "/"}, MaxUriLen)

ExtensionPatterns == SeqsUpTo({"a", ".", "/", "*"}, MaxUriLen)

\* STAC objects: without stac_extensions, with one that is no array, and with
\* an array of up to two URIs.
StacObjects ==
  {EmptyObj, Obj([k \in {"stac_extensions"} |-> Str(<<"a">>)])}
  \cup {Obj([k \in {"stac_extensions"} |-> Arr(<<Str(u)>>)]) : u \in ExtensionUris}
  \cup {Obj([k \in {"stac_extensions"} |-> Arr(<<Str(<<"b", "/", "b">>), Str(u)>>)]) :
          u \in ExtensionUris}
  \cup {Obj([k \in {"stac_extensions"} |-> Arr(<<>>)]), Null, Arr(<<Str(<<"a">>)>>)}

InitExtension ==
  /\ call \in {[op |-> "supportsExtension", data |-> d, pattern |-> Str(q)] :
                 d \in StacObjects, q \in ExtensionPatterns}
  /\ ret = Pending
  /\ Unmounted

SupportsExtension ==
  /\ call.op = "supportsExtension"
  /\ ret = Pending
  /\ ret' = supportsExtension(call.data, call.pattern)
  /\ UNCHANGED <<call, component>>

NextExtension == SupportsExtension

SpecExtension == InitExtension /\ [][NextExtension]_vars

(***************************************************************************)
(* C9                                                                      *)
(***************************************************************************)
\* The match C9 describes: '*' stands for a run of characters other than '/',
\* every other character of the pattern, '.' included, for itself.  (The run
\* is taken to be non-empty, as in the code.)
RECURSIVE WildcardMatch(_, _)
WildcardMatch(pattern, uri) ==
  IF Len(pattern) = 0 THEN Len(uri) = 0
  ELSE IF pattern[1] = "*"
       THEN \E k \in 1..Len(uri) :
              /\ \A i \in 1..k : uri[i] # "/"
              /\ WildcardMatch(Tail(pattern), SubSeq(uri, k + 1, Len(uri)))
  ELSE Len(uri) > 0 /\ uri[1] = pattern[1] /\ WildcardMatch(Tail(pattern), Tail(uri))

\* C9: supportsExtension returns true iff stacObject is an object whose
\* stac_extensions is an array with a URI that matches the pattern as a whole,
\* '*' standing for a run of non-'/' characters and every other character,
\* '.' included, matching only itself.
C9_AsStated ==
  Returned("supportsExtension") =>
    ret = Bool(/\ call.data.t = "object"
               /\ Get(call.data, "stac_extensions").t = "array"
               /\ \E i \in 1..Len(Get(call.data, "stac_extensions").a) :
                    WildcardMatch(call.pattern.s, call.data.o["stac_extensions"].a[i].s))

(***************************************************************************)
(* urijs: parts, normalize, absoluteTo, toString                           *)
(***************************************************************************)
\* The parts URI(h) holds: the scheme symbol ("" when there is none), whether
\* "//" announces an authority, the authority, the path and the query.
UriParts(h) ==
  [protocol  |-> IF Len(h) > 0 /\ h[1] \in Schemes THEN h[1] ELSE "",
   hasAuth   |-> UriHasAuthority(h),
   authority |-> UriAuthority(h),
   path      |-> UriPath(h),
   query     |-> UriQuery(h)]

\* uri.path() of the parts: "/" for an empty path after a hostname.
PathOf(u) == IF u.path = <<>> /\ u.authority # <<>> THEN <<"/">> ELSE u.path

\* uri.path(v): an empty v sets "/".
WithPath(u, v) == [u EXCEPT !.path = IF v = <<>> THEN <<"/">> ELSE v]

\* uri.directory() of the parts.
DirectoryOf(u) ==
  LET p == PathOf(u)
      f == IF p = <<>> \/ p = <<"/">> THEN <<>> ELSE SubSeq(p, LastIndexOf(p, "/") + 1, Len(p))
      d == SubSeq(p, 1, Len(p) - Len(f) - 1)
  IN  IF p = <<>> /\ u.authority = <<>> THEN <<>>
      ELSE IF p = <<"/">> THEN <<"/">>
      ELSE IF d # <<>> THEN d
      ELSE IF u.authority # <<>> THEN <<"/">> ELSE <<>>

\* path.replace(/\/{2,}/g, '/'): every run of slashes becomes one slash.
RECURSIVE CollapseSlashes(_)
CollapseSlashes(p) ==
  IF Len(p) < 2 THEN p
  ELSE IF p[1] = "/" /\ p[2] = "/" THEN CollapseSlashes(Tail(p))
  ELSE <<p[1]>> \o CollapseSlashes(Tail(p))

\* uri.normalizePath() for a path without "." and ".." segments (the paths of
\* the model have none): a relative path is treated with a "/" before it.
NormalizePath(p) ==
  IF p = <<>> \/ p = <<"/">> THEN p
  ELSE IF p[1] # "/" THEN Tail(CollapseSlashes(<<"/">> \o p))
  ELSE CollapseSlashes(p)

\* uri.normalize(): scheme in lower case, path normalized.
Normalize(u) ==
  [u EXCEPT !.protocol = LowerSym(u.protocol), !.path = NormalizePath(u.path)]

\* uri.toString(): "//" follows a scheme and precedes a hostname; a path that
\* does not start with "/" gets one after a hostname.
UriString(u) ==
  (IF u.protocol # "" THEN <<u.protocol>> ELSE <<>>)
  \o (IF u.protocol # "" \/ u.authority # <<>> THEN <<"/", "/">> ELSE <<>>)
  \o u.authority
  \o (IF u.authority # <<>> /\ u.path # <<>> /\ u.path[1] # "/" THEN <<"/">> ELSE <<>>)
  \o u.path
  \o (IF u.query # <<>> THEN <<"?">> \o u.query ELSE <<>>)

\* uri.absoluteTo(base): a URL with a scheme is left alone; one with a hostname
\* takes the scheme of the base; otherwise the authority of the base is taken,
\* an empty path becomes the path (and query) of the base, and a path that does
\* not start with "/" is put after the directory of the base.
AbsoluteTo(u, base) ==
  IF u.protocol # "" THEN u
  ELSE IF u.authority # <<>> THEN [u EXCEPT !.protocol = base.protocol]
  ELSE LET r == [u EXCEPT !.protocol = base.protocol, !.hasAuth = base.hasAuth,
                          !.authority = base.authority]
           basedir == IF DirectoryOf(base) # <<>> THEN DirectoryOf(base)
                      ELSE IF StartsWith(PathOf(base), <<"/">>) THEN <<"/">> ELSE <<>>
       IN  IF r.path = <<>>
           THEN [r EXCEPT !.path = base.path,
                          !.query = IF r.query = <<>> THEN base.query ELSE r.query]
           ELSE IF r.path[1] # "/"
           THEN [r EXCEPT !.path = NormalizePath(
                   (IF basedir # <<>> THEN basedir \o <<"/">> ELSE <<>>) \o r.path)]
           ELSE r

(***************************************************************************)
(* isGdalVfsUri, normalizeUri                                              *)
(***************************************************************************)
\* The words that start with "vsi".
VsiWords == {"vsicurl", "vsizip"}

\* url.startsWith('/vsi')
StartsWithVsi(s) == Len(s) >= 2 /\ s[1] = "/" /\ s[2] \in VsiWords

\* url.startsWith('/vsicurl/')
StartsWithVsicurl(s) == StartsWith(s, <<"/", "vsicurl", "/">>)

isGdalVfsUri(url) == url.t = "string" /\ StartsWithVsi(url.s) /\ ~StartsWithVsicurl(url.s)

\* href.replace(/^\/vsicurl\//, ''), for a string that starts with it.
StripVsicurl(href) ==
  IF href.t = "string" /\ StartsWithVsicurl(href.s)
  THEN Str(SubSeq(href.s, 4, Len(href.s)))
  ELSE href

\* The base as normalizeUri prepares it: a "/" is put after a path that ends
\* neither in "/" nor in ".json".
BaseUri(baseUrl) ==
  LET b == UriParts(baseUrl.s)
      path == PathOf(b)
  IN  IF ~EndsWith(path, <<"/">>) /\ ~EndsWith(path, <<".", "json">>)
      THEN WithPath(b, path \o <<"/">>)
      ELSE b

\* A variant: a GDAL VFS href is resolved like any other.
normalizeUriNoVfs(href, baseUrl, noParams) ==
  LET h   == StripVsicurl(href)
      uri == UriParts(h.s)
      abs == IF Truthy(baseUrl) /\ uri.protocol = ""
             THEN AbsoluteTo(uri, BaseUri(baseUrl))
             ELSE uri
      n   == Normalize(abs)
  IN  Str(UriString(IF noParams THEN [n EXCEPT !.query = <<>>] ELSE n))

\* normalizeUri(href, baseUrl, noParams) for a string href, returned as a string.
normalizeUri(href, baseUrl, noParams) ==
  LET h   == StripVsicurl(href)
      uri == UriParts(h.s)
      abs == IF Truthy(baseUrl) /\ uri.protocol = "" /\ ~isGdalVfsUri(h)
             THEN AbsoluteTo(uri, BaseUri(baseUrl))
             ELSE uri
      n   == Normalize(abs)
  IN  Str(UriString(IF noParams THEN [n EXCEPT !.query = <<>>] ELSE n))

(***************************************************************************)
(* equalUrl                                                                *)
(***************************************************************************)
\* path.replace(/\/$/, ''): one trailing slash removed.
StripTrailingSlash(p) == IF Len(p) > 0 /\ p[Len(p)] = "/" THEN SubSeq(p, 1, Len(p) - 1) ELSE p

\* uri1.equals(uri2): both are normalized and compared (the URLs of the model
\* carry no query, whose parameters would be compared as a set).
UriEquals(u1, u2) == UriString(Normalize(u1)) = UriString(Normalize(u2))

\* A variant: no trailing slash is removed.
equalUrlAsIs(a, b) ==
  IF a.t # "string" \/ b.t # "string" THEN Bool(FALSE)
  ELSE Bool(UriEquals(UriParts(a.s), UriParts(b.s)))

\* equalUrl(a, b): URI(x) raises a TypeError for an x that is no string, which
\* the catch turns into false.
equalUrl(a, b) ==
  IF a.t # "string" \/ b.t # "string" THEN Bool(FALSE)
  ELSE LET uri1 == UriParts(a.s)
           uri2 == UriParts(b.s)
       IN  Bool(UriEquals(WithPath(uri1, StripTrailingSlash(PathOf(uri1))),
                          WithPath(uri2, StripTrailingSlash(PathOf(uri2)))))

(***************************************************************************)
(* normalizeUri: a call is chosen, then it returns                         *)
(***************************************************************************)
MaxBaseSegments == 2

\* What an href starts with: nothing (a relative path), "/", a GDAL virtual
\* file system, /vsicurl/ before a path, a URL, a GDAL path or /vsicurl/
\* again, and a URL.
HrefPrefixes ==
  {<<>>,
   <<"/">>,
   <<"/", "vsizip", "/">>,
   <<"/", "vsicurl", "/">>,
   <<"/", "vsicurl", "/", "https:", "/", "/", "x.com", "/">>,
   <<"/", "vsicurl", "/", "/", "vsizip", "/">>,
   <<"/", "vsicurl", "/", "/", "vsicurl", "/">>,
   <<"https:", "/", "/", "x.com", "/">>}

HrefNames == {<<"b", ".", "json">>, <<"d", "/", "a", ".", "tif">>, <<"d", "/">>, <<"vsicurl">>}

NormalizeHrefs == {Str(q \o n) : q \in HrefPrefixes, n \in HrefNames}

BaseOrigin == <<"https:", "/", "/", "ex.com">>

BaseSegments == {<<"api">>, <<"v1", ".", "0">>, <<"c", ".", "json">>}

\* "/" before every segment.
RECURSIVE SlashJoin(_)
SlashJoin(segs) == IF Len(segs) = 0 THEN <<>> ELSE <<"/">> \o segs[1] \o SlashJoin(Tail(segs))

\* Base URLs: the origin, up to MaxBaseSegments segments, a "/" at the end or not.
BaseUrls ==
  {Str(BaseOrigin \o SlashJoin(segs) \o e) :
     segs \in SeqsUpTo(BaseSegments, MaxBaseSegments), e \in {<<>>, <<"/">>}}

InitNormalize ==
  /\ call \in {[op |-> "normalizeUri", href |-> h, baseUrl |-> b, noParams |-> FALSE] :
                 h \in NormalizeHrefs, b \in BaseUrls \cup {Null, Str(<<>>)}}
  /\ ret = Pending
  /\ Unmounted

NormalizeUri ==
  /\ call.op = "normalizeUri"
  /\ ret = Pending
  /\ ret' = normalizeUri(call.href, call.baseUrl, call.noParams)
  /\ UNCHANGED <<call, component>>

NextNormalize == NormalizeUri

SpecNormalize == InitNormalize /\ [][NextNormalize]_vars

(***************************************************************************)
(* C6                                                                      *)
(***************************************************************************)
\* href once a leading "/vsicurl/" has been removed.
HrefStripped ==
  IF StartsWith(call.href.s, <<"/", "vsicurl", "/">>)
  THEN SubSeq(call.href.s, 4, Len(call.href.s))
  ELSE call.href.s

BaseGiven == call.baseUrl.t = "string" /\ Len(call.baseUrl.s) > 0

\* The href has no scheme.
HrefRelative == Len(HrefStripped) = 0 \/ HrefStripped[1] \notin Schemes

\* The result lies under the origin of the base: the href has been resolved.
ResolvedAgainstBase == StartsWith(ret.s, BaseOrigin)

\* The path of the base URL of the call ("/" for the bare origin).
BasePath ==
  IF Len(call.baseUrl.s) = Len(BaseOrigin) THEN <<"/">>
  ELSE SubSeq(call.baseUrl.s, Len(BaseOrigin) + 1, Len(call.baseUrl.s))

\* What C6 says of a resolved relative path: after a base path that ends in
\* "/" it follows the base path, after one that ends in ".json" it replaces
\* the last segment, after any other it follows the base path and a "/".
ResolvedAsClaimed ==
  (ResolvedAgainstBase /\ Len(HrefStripped) > 0 /\ HrefStripped[1] # "/") =>
    ret.s = BaseOrigin \o
      (IF EndsWith(BasePath, <<"/">>) THEN BasePath
       ELSE IF EndsWith(BasePath, <<".", "json">>)
            THEN SubSeq(BasePath, 1, LastIndexOf(BasePath, "/"))
       ELSE BasePath \o <<"/">>)
      \o HrefStripped

\* C6 as stated: the href is resolved iff a base is given, the href (a leading
\* "/vsicurl/" removed) is relative and does not start with "/vsi"; an href
\* that starts with "/vsi" is returned as it is; a resolved relative path is
\* put after the base as a directory, or replaces the last segment of a base
\* path ending in ".json".
C6_AsStated ==
  Returned("normalizeUri") =>
    LET gdal == Len(HrefStripped) >= 2 /\ HrefStripped[1] = "/"
                /\ HrefStripped[2] \in {"vsicurl", "vsizip"}
    IN  /\ ResolvedAgainstBase <=> (BaseGiven /\ HrefRelative /\ ~gdal)
        /\ gdal => ret.s = HrefStripped
        /\ ResolvedAsClaimed

\* C6, amended: a GDAL VFS path is an href that, a leading "/vsicurl/" removed,
\* starts with "/vsi" and not with "/vsicurl/".
C6_Amended ==
  Returned("normalizeUri") =>
    LET gdal == /\ Len(HrefStripped) >= 2 /\ HrefStripped[1] = "/"
                /\ HrefStripped[2] \in {"vsicurl", "vsizip"}
                /\ ~(Len(HrefStripped) >= 3 /\ HrefStripped[2] = "vsicurl" /\ HrefStripped[3] = "/")
    IN  /\ ResolvedAgainstBase <=> (BaseGiven /\ HrefRelative /\ ~gdal)
        /\ gdal => ret.s = HrefStripped
        /\ ResolvedAsClaimed

\* The example of C6 has returned: "b.json" against "https://ex.com/api/v1.0".
C6_Witness ==
  /\ Returned("normalizeUri")
  /\ call.href = Str(<<"b", ".", "json">>)
  /\ call.baseUrl = Str(BaseOrigin \o <<"/", "api", "/", "v1", ".", "0">>)
  /\ ret = Str(BaseOrigin \o <<"/", "api", "/", "v1", ".", "0", "/", "b", ".", "json">>)

(***************************************************************************)
(* equalUrl: a call is chosen, then it returns                             *)
(***************************************************************************)
MaxSlashes == 4

UrlOrigin == <<"https:", "/", "/", "ex.com">>

UrlStems == {<<"/", "a">>, <<"/", "b">>, <<"/", "a", "/", "b">>}

\* k times "/".
RECURSIVE Slashes(_)
Slashes(k) == IF k = 0 THEN <<>> ELSE <<"/">> \o Slashes(k - 1)

Url(stem, k) == Str(UrlOrigin \o stem \o Slashes(k))

\* URLs, and values URI() does not take: it throws a TypeError for null,
\* numbers, arrays and objects.
UrlArguments ==
  {Url(stem, k) : stem \in UrlStems, k \in 0..MaxSlashes}
    \cup {Null, Num(1), Arr(<<>>), EmptyObj}

InitEqualUrl ==
  /\ call \in {[op |-> "equalUrl", a |-> a, b |-> b] : a \in UrlArguments, b \in UrlArguments}
  /\ ret = Pending
  /\ Unmounted

EqualUrl ==
  /\ call.op = "equalUrl"
  /\ ret = Pending
  /\ ret' = equalUrl(call.a, call.b)
  /\ UNCHANGED <<call, component>>

NextEqualUrl == EqualUrl

SpecEqualUrl == InitEqualUrl /\ [][NextEqualUrl]_vars

(***************************************************************************)
(* C8                                                                      *)
(***************************************************************************)
\* The number of "/" a string ends with.
RECURSIVE TrailingSlashes(_)
TrailingSlashes(s) ==
  IF Len(s) > 0 /\ s[Len(s)] = "/" THEN 1 + TrailingSlashes(SubSeq(s, 1, Len(s) - 1)) ELSE 0

\* A string without the "/" it ends with.
StemOf(s) == SubSeq(s, 1, Len(s) - TrailingSlashes(s))

Distance(m, n) == IF m >= n THEN m - n ELSE n - m

BothUrls == call.a.t = "string" /\ call.b.t = "string"

PathHead(path) ==
  CASE path.t \in {"null", "undefined"}      -> Throw
    [] path.t = "array" /\ Len(path.a) > 0   -> path.a[1]
    [] path.t = "string" /\ Len(path.s) > 0  -> Str(<<path.s[1]>>)
    [] OTHER                                 -> Undefined

\* path.length > 1
PathLonger(path) ==
  \/ (path.t = "array" /\ Len(path.a) > 1)
  \/ (path.t = "string" /\ Len(path.s) > 1)

\* path.slice(1), where path.length > 1.
PathRest(path) == IF path.t = "array" THEN Arr(Tail(path.a)) ELSE Str(Tail(path.s))

\* object[key] for an object or array and any key (the key as a string).
Member(object, key) ==
  CASE object.t = "object" ->
         IF Len(ToStr(key)) = 1 /\ ToStr(key)[1] \in DOMAIN object.o
         THEN object.o[ToStr(key)[1]] ELSE Undefined
    [] object.t = "array"  ->
         IF \E i \in 1..Len(object.a) : ToStr(key) = <<NumSym(i - 1)>>
         THEN object.a[CHOOSE i \in 1..Len(object.a) : ToStr(key) = <<NumSym(i - 1)>>]
         ELSE Undefined
    [] OTHER               -> Undefined

RECURSIVE getValueFromObjectUsingPath(_, _)
getValueFromObjectUsingPath(object, path) ==
  IF object.t = "null" \/ ~TypeofObject(object) THEN Undefined
  ELSE IF PathHead(path).t = "throw" THEN Throw
  ELSE LET next == Member(object, PathHead(path))
       IN  IF next.t # "undefined" /\ PathLonger(path)
           THEN getValueFromObjectUsingPath(next, PathRest(path))
           ELSE next

(***************************************************************************)
(* summarizeMd                                                             *)
(***************************************************************************)
\* removeMd(text) of the remove-markdown package, for the symbols of the
\* model: the emphasis and heading marks are dropped.
RemoveMd(s) == SelectSeq(s, LAMBDA c : c \notin {"*", "#"})

\* replaceAll(/[\r\n]+/g, ' '): every run of line breaks becomes one space.
RECURSIVE ReplaceLineBreaks(_)
ReplaceLineBreaks(s) ==
  IF Len(s) = 0 THEN <<>>
  ELSE IF s[1] = "\n"
       THEN IF Len(s) > 1 /\ s[2] = "\n" THEN ReplaceLineBreaks(Tail(s))
            ELSE <<" ">> \o ReplaceLineBreaks(Tail(s))
  ELSE <<s[1]>> \o ReplaceLineBreaks(Tail(s))

\* The number maxLength is compared and truncated with: the number itself, 0
\* for null (the default), and for the other values of the model a number that
\* is not greater than 0 (NaN for undefined, a letter, an object; 0 for []).
LengthOf(maxLength) ==
  IF maxLength.t = "number" /\ maxLength.fin THEN maxLength.n
  ELSE IF maxLength.t = "array" /\ Len(maxLength.a) = 1 /\ maxLength.a[1].t = "number"
            /\ maxLength.a[1].fin
       THEN maxLength.a[1].n
  ELSE 0

summarizeMd(text, maxLength) ==
  IF ~hasText(text) THEN Str(<<>>)
  ELSE LET plain == ReplaceLineBreaks(RemoveMd(text.s))
       IN  IF LengthOf(maxLength) > 0 /\ Len(plain) > LengthOf(maxLength)
           THEN Str(SubSeq(plain, 1, LengthOf(maxLength)) \o <<"...">>) \* the ellipsis
           ELSE Str(plain)

(***************************************************************************)
(* Calls with arguments of every kind: a call is chosen, then it returns   *)
(***************************************************************************)
LinkObject == Link(Str(<<"a">>), Str(<<"a">>))

DatetimeObject == Obj([k \in {"datetime"} |-> Str(<<"v">>)])

StacObject ==
  Obj([k \in {"stac_extensions", "a"} |->
         IF k = "a" THEN Obj([j \in {"b"} |-> Num(1)]) ELSE Arr(<<Str(<<"a">>)>>)])

\* null, undefined, a number, strings, arrays and plain objects.
ArgumentValues ==
  {Null, Undefined, Num(1),
   Str(<<"a">>), Str(<<"*", "a", "\n", "b">>),
   Arr(<<>>), Arr(<<Str(<<"a">>)>>), Arr(<<LinkObject>>),
   EmptyObj, LinkObject, DatetimeObject, StacObject}

InitThrow ==
  /\ call \in
       {[op |-> "canBrowserDisplayImage", img |-> x] : x \in ArgumentValues}
       \cup {[op |-> o, links |-> x, rel |-> y] :
               o \in {"getLinkWithRel"}, x \in ArgumentValues, y \in ArgumentValues}
       \cup {[op |-> o, links |-> x, rels |-> y] :
               o \in {"getLinksWithRels", "getLinksWithOtherRels"},
               x \in ArgumentValues, y \in ArgumentValues}
       \cup {[op |-> "supportsExtension", data |-> x, pattern |-> y] :
               x \in ArgumentValues, y \in ArgumentValues}
       \cup {[op |-> "getValueFromObjectUsingPath", object |-> x, path |-> y] :
               x \in ArgumentValues, y \in ArgumentValues}
       \cup {[op |-> "summarizeMd", text |-> x, maxLength |-> y] :
               x \in ArgumentValues, y \in ArgumentValues}
       \cup {[op |-> "search", searchterm |-> x, target |-> y, and |-> z] :
               x \in ArgumentValues, y \in ArgumentValues, z \in {Bool(TRUE), Undefined}}
       \cup {[op |-> "addFiltersToLink", link |-> x, filters |-> y] :
               x \in ArgumentValues, y \in ArgumentValues}
  /\ ret = Pending
  /\ Unmounted

GetValueFromObjectUsingPath ==
  /\ call.op = "getValueFromObjectUsingPath"
  /\ ret = Pending
  /\ ret' = getValueFromObjectUsingPath(call.object, call.path)
  /\ UNCHANGED <<call, component>>

SummarizeMd ==
  /\ call.op = "summarizeMd"
  /\ ret = Pending
  /\ ret' = summarizeMd(call.text, call.maxLength)
  /\ UNCHANGED <<call, component>>

NextThrow ==
  \/ CanBrowserDisplayImage
  \/ GetLinkWithRel
  \/ GetLinksWithRels
  \/ GetLinksWithOtherRels
  \/ SupportsExtension
  \/ GetValueFromObjectUsingPath
  \/ SummarizeMd
  \/ Search
  \/ AddFiltersToLink

SpecThrow == InitThrow /\ [][NextThrow]_vars

(***************************************************************************)
(* C5                                                                      *)
(***************************************************************************)
\* C5: none of canBrowserDisplayImage, getLinkWithRel, getLinksWithRels,
\* getLinksWithOtherRels, supportsExtension, getValueFromObjectUsingPath,
\* summarizeMd, search and addFiltersToLink raises an error, whatever kind of
\* value each argument is (a 'datetime' filter that is a non-empty string
\* included): each returns a value.
C5_AsStated ==
  (ret # Pending /\ call.op \in
     {"canBrowserDisplayImage", "getLinkWithRel", "getLinksWithRels",
      "getLinksWithOtherRels", "supportsExtension", "getValueFromObjectUsingPath",
      "summarizeMd", "search", "addFiltersToLink"})
    => ret.t # "throw"

(***************************************************************************)
(* The Items component: computed properties                                *)
(***************************************************************************)
\* An item is the rank of its display title in the order of localeCompare;
\* props.items is a sequence of items.
hasMore == Len(props.items) > shownItems

\* The values of apiFilters that pass the filter: neither null nor of size 0.
hasFilters ==
  Cardinality({k \in DOMAIN props.apiFilters.o :
                 ~(props.apiFilters.o[k].t = "null" \/ size(props.apiFilters.o[k]) = 0)}) > 1

\* items.slice(0).sort(...): ascending by title.
RECURSIVE SortByTitle(_)
SortByTitle(items) ==
  IF Len(items) = 0 THEN <<>>
  ELSE LET i == CHOOSE j \in 1..Len(items) :
                  /\ \A k \in 1..Len(items) : items[j] <= items[k]
                  /\ \A k \in 1..(j - 1) : items[k] # items[j]
       IN  <<items[i]>> \o SortByTitle(SubSeq(items, 1, i - 1) \o SubSeq(items, i + 1, Len(items)))

\* items.reverse()
Reverse(items) == [i \in 1..Len(items) |-> items[Len(items) + 1 - i]]

\* items.slice(0, n)
Slice(items, n) == SubSeq(items, 1, IF n < Len(items) THEN n ELSE Len(items))

chunkedItems ==
  LET items == IF sort # 0
               THEN IF sort = -1 THEN Reverse(SortByTitle(props.items))
                    ELSE SortByTitle(props.items)
               ELSE props.items
  IN  IF ~props.api /\ Len(props.items) > props.chunkSize
      THEN Slice(items, shownItems)
      ELSE items

showPagination ==
  IF props.api
  THEN IF hasFilters THEN TRUE
       ELSE IF Len(props.items) > 0
            THEN \E k \in DOMAIN props.pagination.o : Truthy(props.pagination.o[k])
            ELSE FALSE
  ELSE FALSE

(***************************************************************************)
(* The Items component: a component is mounted, then its methods run       *)
(***************************************************************************)
MaxItems == 3

MaxChunkSize == 2

ItemTitles == {1, 2}

\* The filters next to limit: bbox and q, each absent or with a value.
BboxValues == {Null, Arr(<<>>), Arr(<<Num(1), Num(2)>>), Obj([k \in {"a"} |-> Num(1)])}

QValues == {Str(<<>>), Str(<<"v">>), Num(5), EmptyObj, Arr(<<Str(<<"v">>)>>)}

\* apiFilters: the default {}, and objects with a limit.
ApiFilters ==
  {EmptyObj}
  \cup {Obj([k \in {"limit"} |-> Num(5)])}
  \cup {Obj([k \in {"limit", "bbox"} |-> IF k = "limit" THEN Num(5) ELSE b]) : b \in BboxValues}
  \cup {Obj([k \in {"limit", "q"} |-> IF k = "limit" THEN Num(5) ELSE q]) : q \in QValues}
  \cup {Obj([k \in {"limit", "bbox", "q"} |->
               IF k = "limit" THEN Num(5) ELSE IF k = "bbox" THEN b ELSE q]) :
          b \in BboxValues, q \in QValues}

\* pagination: the default {}, a link that is null, a link.
Paginations ==
  {EmptyObj,
   Obj([k \in {"next"} |-> Null]),
   Obj([k \in {"next"} |-> Link(Str(<<"a">>), Str(<<"next">>))])}

\* The props stay as they are given; data() sets shownItems to chunkSize.
InitItems ==
  /\ call = [op |-> "none"]
  /\ ret = Pending
  /\ props \in [items : SeqsUpTo(ItemTitles, MaxItems),
                api : BOOLEAN,
                allowFilter : BOOLEAN,
                apiFilters : ApiFilters,
                pagination : Paginations,
                chunkSize : 1..MaxChunkSize]
  /\ shownItems = props.chunkSize
  /\ filtersOpen = FALSE
  /\ sort = 0

\* The button is rendered where there is no pagination and hasMore holds; a
\* click on it, or its becoming visible, calls showMore.
ShowMore ==
  /\ ~showPagination
  /\ hasMore
  /\ shownItems' = shownItems + props.chunkSize
  /\ UNCHANGED <<call, ret, props, filtersOpen, sort>>

\* SortButtons (rendered where api is false) sets sort through v-model.
SetSort ==
  /\ ~props.api
  /\ sort' \in {-1, 0, 1} \ {sort}
  /\ UNCHANGED <<call, ret, props, shownItems, filtersOpen>>

\* The filter button (rendered where allowFilter and api hold) toggles the
\* collapse, which sets filtersOpen through v-model.
ToggleFilters ==
  /\ props.allowFilter
  /\ props.api
  /\ filtersOpen' = ~filtersOpen
  /\ UNCHANGED <<call, ret, props, shownItems, sort>>

NextItems == ShowMore \/ SetSort \/ ToggleFilters

SpecItems == InitItems /\ [][NextItems]_vars

\* A button that stays on the page is pressed, or seen, in the end.
SpecItemsFair == SpecItems /\ WF_vars(ShowMore)

(***************************************************************************)
(* C11                                                                     *)
(***************************************************************************)
\* apiFilters carries a limit that is a number.
LimitPresent ==
  /\ "limit" \in DOMAIN props.apiFilters.o
  /\ props.apiFilters.o["limit"].t = "number"

\* A non-empty value: a non-empty string, a number, a non-empty array or object.
NonEmptyValue(v) ==
  \/ (v.t = "string" /\ Len(v.s) > 0)
  \/ v.t = "number"
  \/ (v.t = "array" /\ Len(v.a) > 0)
  \/ (v.t = "object" /\ DOMAIN v.o # {})

\* A filter other than limit has a non-empty value.
UserFilterSet ==
  \E k \in DOMAIN props.apiFilters.o \ {"limit"} : NonEmptyValue(props.apiFilters.o[k])

\* C11: with a numeric limit among the filters, hasFilters holds iff a filter
\* other than limit has a non-empty value, and in API mode such a filter
\* makes showPagination hold.
C11_AsStated ==
  LimitPresent =>
    /\ hasFilters <=> UserFilterSet
    /\ (props.api /\ UserFilterSet) => showPagination

(***************************************************************************)
(* C12                                                                     *)
(***************************************************************************)
\* The 'show more' button is on the page.
ButtonOffered == ~showPagination /\ hasMore

\* C12: the button is offered only where chunkedItems shows fewer items than
\* there are; every showMore shows more items than before; and once the
\* button is offered, in the end hasMore is false and chunkedItems holds every
\* item.
C12_AsStated ==
  /\ [](ButtonOffered => Len(chunkedItems) < Len(props.items))
  /\ [][ShowMore => Len(chunkedItems') > Len(chunkedItems)]_vars
  /\ ButtonOffered ~> (~hasMore /\ SortByTitle(chunkedItems) = SortByTitle(props.items))

====
